---- MODULE Spec2Model ----
(***************************************************************************)
(* Model of the PDF learning system.                                       *)
(*                                                                         *)
(*  Spec        ParallelPDFLearningSystem.process_all_pdfs_parallel: the   *)
(*              main thread, the ThreadPoolExecutor and one                *)
(*              process_single_pdf job per discovered PDF.                 *)
(*                                                                         *)
(*  SpecBundle  EnhancedAIPDFProcessor.process_pdf_with_structured_content  *)
(*              for one document: the loop over the outline, with every   *)
(*              answer the model may give.                                 *)
(*                                                                         *)
(*  SpecTopic   one call of _generate_mcqs_for_topic,                      *)
(*              _generate_subjective_for_topic or                          *)
(*              _generate_concepts_for_topic, for every answer.            *)
(*                                                                         *)
(*  SpecPath    the output paths generate_html_page computes for two       *)
(*              inputs with different names.                               *)
(*                                                                         *)
(*  SpecFair    Spec under fair scheduling of the main thread and of the   *)
(*              jobs.                                                      *)
(*                                                                         *)
(*  SpecDeployer  GitHubPagesDeployer.deploy of deploy_to_github.py.       *)
(*                                                                         *)
(* Every step of process_single_pdf that calls out (the AI processor, the  *)
(* HTML generator, open() and write() of the index file) either returns or *)
(* raises; a raise is caught by the handler of process_single_pdf, which   *)
(* returns None. deploy_to_github_pages is modelled step by step: the      *)
(* token, git --version, the copy into deploy_temp, the git commands and   *)
(* the finally block.                                                      *)
(***************************************************************************)
EXTENDS Integers, Sequences, FiniteSets, TLC

\* ------------------------------------------------------------------ bounds
MaxInputs == 3
MaxWorkers == 2
MaxUnreadable == 1    \* input files whose text cannot be extracted

Inputs == 1..MaxInputs

\* The value of self.lock when no thread holds it.
NoHolder == 0

VARIABLES
    mainPc,          \* position of the main thread in process_all_pdfs_parallel
    pdf_files,       \* the list returned by get_pdf_files
    max_workers,     \* the argument of process_all_pdfs_parallel
    queue,           \* work items of the executor not yet picked up by a worker
    jobPc,           \* position of each process_single_pdf call
    started,         \* how many times a worker began process_single_pdf(i)
    result,          \* the future's result: "pending", "info" (pdf_info) or "None"
    lock,            \* holder of self.lock, or NoHolder
    processed_pdfs,  \* self.processed_pdfs
    index_file,      \* content of index.html on disk
    index_content,   \* per job: the index_content string built by update_index_page
    pages,           \* inputs whose rendered page file has been written
    text_content,    \* per job: what _extract_text_from_pdf returned, "unread" before
    reported,        \* futures the as_completed loop has handled
    deployCalls,     \* number of calls of deploy_to_github_pages
    deployOutcome,   \* outcome of the deployment, "none" before
    returned,        \* return value of process_all_pdfs_parallel, "running" before
    cwd,             \* the working directory of the process
    deploy_dir,      \* the local variable deploy_dir of deploy_to_github_pages
    deploy_temp,     \* the directory deploy_temp exists in the project directory
    git_log,         \* the git commands deploy_to_github_pages has run, in order
    p_pc,            \* per job: before or after the path computation of generate_html_page
    p_names,         \* the base names of two PDF files found in one run
    p_paths,         \* per job: the output_path generate_html_page computed
    \* EnhancedAIPDFProcessor.process_pdf_with_structured_content
    configured,      \* __init__ found api_key and endpoint and set up the object
    topic_structure, \* the list returned by _identify_topic_headings
    synth_texts,     \* question texts the model may answer with in this run
    b_pc,            \* position in process_pdf_with_structured_content
    b_i,             \* index of the current entry of topic_structure
    b_j,             \* index of the current subtopic, 0 for a topic without subtopics
    all_concepts,    \* all_concepts
    all_mcqs,        \* all_mcqs
    all_subjective,  \* all_subjective
    bundle,          \* the returned dictionary, NoBundle before
    \* one call of a generator for a topic (mcqs, subjective, concepts)
    t_pc, t_kind, t_min, t_start_id, t_response, t_batch,
    \* GitHubPagesDeployer.deploy (deploy_to_github.py)
    d_pc,            \* position in deploy
    d_env,           \* what the project directory holds when deploy is called
    d_cwd,           \* working directory of the process: "project" or "deploy"
    d_deploy,        \* the directory deploy in the project directory
    d_git,           \* git commands run so far
    d_outcome        \* how the deployment went

pipelineVars == << mainPc, pdf_files, max_workers, queue, jobPc, started, result, lock,
                   processed_pdfs, index_file, index_content, pages, text_content,
                   reported, deployCalls, deployOutcome, returned,
                   cwd, deploy_dir, deploy_temp, git_log, p_pc, p_names, p_paths,
                   d_pc, d_env, d_cwd, d_deploy, d_git, d_outcome >>

\* What the path computation of generate_html_page alone changes.
pathVars == << p_pc, p_names, p_paths >>

\* What GitHubPagesDeployer.deploy alone changes.
deployerVars == << d_pc, d_env, d_cwd, d_deploy, d_git, d_outcome >>

\* What deploy_to_github_pages alone changes.
deployVars == << cwd, deploy_dir, deploy_temp, git_log >>

bundleVars == << configured, topic_structure, synth_texts, b_pc, b_i, b_j, all_concepts,
                 all_mcqs, all_subjective, bundle >>

topicVars == << t_pc, t_kind, t_min, t_start_id, t_response, t_batch >>

vars == << pipelineVars, bundleVars, topicVars >>

\* ------------------------------------------------------------- file values
\* index.html does not exist before the run.
Absent == [kind |-> "absent", total |-> 0, completed |-> 0, entries |-> << >>]

\* index.html right after open(self.index_file, 'w'): truncated to nothing.
Truncated == [kind |-> "truncated", total |-> 0, completed |-> 0, entries |-> << >>]

\* The document written by create_initial_index_page(total_pdfs).
InitialIndexContent(total_pdfs) ==
    [kind |-> "placeholder", total |-> total_pdfs, completed |-> 0, entries |-> << >>]

\* The document built by update_index_page: one card per entry of
\* processed_pdfs, in order, and the count len(self.processed_pdfs).
IndexContent(pdfs) ==
    [kind |-> "index", total |-> Len(pdfs), completed |-> Len(pdfs), entries |-> pdfs]

NoContent == Absent

\* Return values of process_all_pdfs_parallel: still running, or None ("return"
\* without a value, and the end of the function body).
StillRunning == [kind |-> "running", value |-> << >>]
ReturnNone == [kind |-> "None", value |-> << >>]

\* process_all_pdfs_parallel left by an exception that nothing caught.
Raised == [kind |-> "raised", value |-> << >>]

\* ----------------------------------------------------------------- helpers
Range(s) == { s[k] : k \in 1..Len(s) }

Count(s, x) == Cardinality({ k \in 1..Len(s) : s[k] = x })

NumFiles == Len(pdf_files)

\* A worker thread is inside process_single_pdf(i).
Running(i) ==
    jobPc[i] \in {"process", "render", "waitlock", "locked", "appended", "opened", "written"}

\* The job is inside "with self.lock:".
InCritical(i) == jobPc[i] \in {"locked", "appended", "opened", "written"}

\* ------------------------------------------- enhanced_ai_processor: data
\* min_mcqs / min_subjective passed for a subtopic and for a topic without
\* subtopics, and min_concepts.
MinSubtopic == 2
MinMainTopic == 3
MinConcepts == 1

\* Bounds of the processor model.
MaxUnits == 2         \* topics without subtopics plus subtopics of an outline
MaxBundleItems == 3   \* items of one model answer in a whole-document run
MaxItems == 3         \* items of one model answer in a single call
MaxWords == 2         \* distinct question wordings of the model
MaxStartId == 2       \* start_id of a single call
MaxConceptItems == 2  \* concepts of one model answer

\* A question text: its wording, whether it has capital letters, and whether it
\* has white space around it.
Word(k, n) == [kind |-> k, n |-> n]

TextOf(w, u, p) == [word |-> w, upper |-> u, padded |-> p]

\* str.lower() and str.strip()
Lower(t) == [t EXCEPT !.upper = FALSE]

Strip(t) == [t EXCEPT !.padded = FALSE]

\* question_text = mcq['question'].lower().strip()
question_text(item) == Strip(Lower(item.question))

NoText == TextOf(Word("none", 0), FALSE, FALSE)

\* f'Additional MCQ question {start_id + i}?'
AdditionalMcqText(n) == TextOf(Word("Additional MCQ question", n), TRUE, FALSE)

\* f'Additional subjective question {start_id + i}?'
AdditionalSubjectiveText(n) == TextOf(Word("Additional subjective question", n), TRUE, FALSE)

\* An item of a model answer: a dictionary with a 'question', or one without.
\* The id the model gave is overwritten by the caller.
SynthItem(t) == [id |-> 0, question |-> t, has_question |-> TRUE]

ItemWithoutQuestion == [id |-> 0, question |-> NoText, has_question |-> FALSE]

\* A model answer: text that holds no JSON object (also the "" of a failed
\* API call), or a JSON object with a list of items.
Unparseable == [parseable |-> FALSE, items |-> << >>]

Responses(item_set, maxLen) ==
    {Unparseable} \cup
    { [parseable |-> TRUE, items |-> s] : s \in UNION { [1..n -> item_set] : n \in 0..maxLen } }

\* Wordings the model uses in a single call: some questions, plain and in
\* capitals with white space around, and the lower-case text of the
\* placeholder with the given id.
CallTexts(kind, collide_id) ==
    { TextOf(Word("question", n), FALSE, FALSE) : n \in 1..MaxWords } \cup
    { TextOf(Word("question", n), TRUE, TRUE) : n \in 1..MaxWords } \cup
    { Lower(IF kind = "mcq" THEN AdditionalMcqText(collide_id)
                            ELSE AdditionalSubjectiveText(collide_id)) }

\* The one wording the model uses in a whole-document run.
BundleTexts == { TextOf(Word("question", 1), FALSE, FALSE) }

\* ------------------------------------------ enhanced_ai_processor: helpers
\* _parse_mcqs_response / _parse_subjective_response: the list under 'mcqs' /
\* 'subjective', [] when the text holds no JSON object.
parse_response(response) ==
    IF response.parseable THEN response.items ELSE << >>

\* for i, mcq in enumerate(mcqs): mcq['id'] = start_id + i
fix_ids(items, start_id) ==
    [k \in 1..Len(items) |-> [items[k] EXCEPT !.id = start_id + k - 1]]

\* _generate_additional_mcqs(text_content, count, start_id)
generate_additional_mcqs(count, start_id) ==
    [k \in 1..count |->
        [id |-> start_id + k - 1,
         question |-> AdditionalMcqText(start_id + k - 1),
         has_question |-> TRUE]]

\* _generate_additional_subjective(text_content, count, start_id)
generate_additional_subjective(count, start_id) ==
    [k \in 1..count |->
        [id |-> start_id + k - 1,
         question |-> AdditionalSubjectiveText(start_id + k - 1),
         has_question |-> TRUE]]

\* The loop over seen_questions left out: every item is kept.
all_items(items, k) == SubSeq(items, 1, k)

\* The loop over seen_questions: the first k items without those whose
\* question_text an earlier kept item has.
RECURSIVE unique_items(_, _)
unique_items(items, k) ==
    IF k = 0
       THEN << >>
       ELSE LET prev == unique_items(items, k - 1)
            IN IF \E m \in 1..Len(prev) : question_text(prev[m]) = question_text(items[k])
                  THEN prev
                  ELSE Append(prev, items[k])

\* The list returned whole, without the slice.
every_item(items, n) == items

\* unique_mcqs[:min_mcqs]
first_items(items, n) == SubSeq(items, 1, IF Len(items) < n THEN Len(items) ELSE n)

\* _generate_mcqs_for_topic, from the model answer on: an item without
\* 'question' raises KeyError in the duplicate loop and the handler returns [].
generate_mcqs_for_topic(response, min_mcqs, start_id) ==
    LET mcqs == fix_ids(parse_response(response), start_id)
        filled == IF Len(mcqs) < min_mcqs
                     THEN mcqs \o generate_additional_mcqs(min_mcqs - Len(mcqs),
                                                           start_id + Len(mcqs))
                     ELSE mcqs
    IN IF \E k \in 1..Len(filled) : ~filled[k].has_question
          THEN << >>
          ELSE first_items(unique_items(filled, Len(filled)), min_mcqs)

\* _generate_subjective_for_topic, from the model answer on.
generate_subjective_for_topic(response, min_subjective, start_id) ==
    LET subjective == fix_ids(parse_response(response), start_id)
        filled == IF Len(subjective) < min_subjective
                     THEN subjective \o
                          generate_additional_subjective(min_subjective - Len(subjective),
                                                         start_id + Len(subjective))
                     ELSE subjective
    IN IF \E k \in 1..Len(filled) : ~filled[k].has_question
          THEN << >>
          ELSE first_items(unique_items(filled, Len(filled)), min_subjective)

\* A concept of a model answer is a dictionary or something else (a string);
\* the answer holds no JSON object, or 'concepts' is no list, or it is a list.
NoLabel == [main |-> 0, arrow |-> FALSE, sub |-> 0]

\* path is the position in the outline the concept is generated for, << >>
\* before the caller has taken it.
ConceptItem(d) == [is_dict |-> d, placeholder |-> FALSE, topic |-> NoLabel, path |-> << >>]

ConceptResponses ==
    { [shape |-> "unparseable", items |-> << >>], [shape |-> "not_a_list", items |-> << >>] } \cup
    { [shape |-> "list", items |-> s] :
        s \in UNION { [1..n -> { ConceptItem(d) : d \in BOOLEAN }] : n \in 0..MaxConceptItems } }

\* _generate_additional_concepts(text_content, count)
generate_additional_concepts(count) ==
    [k \in 1..count |-> [is_dict |-> TRUE, placeholder |-> TRUE, topic |-> NoLabel,
                         path |-> << >>]]

\* _generate_text_only_concepts, from the model answer on: len() of a value
\* that is no list raises and the handler returns [].
generate_text_only_concepts(response, min_concepts) ==
    IF response.shape = "not_a_list"
       THEN << >>
       ELSE LET concepts == response.items
                filled == IF Len(concepts) < min_concepts
                             THEN concepts \o
                                  generate_additional_concepts(min_concepts - Len(concepts))
                             ELSE concepts
            IN first_items(filled, min_concepts)

\* concept['topic'] = f"{main_topic} -> {subtopic}" or concept['topic'] = main_topic
TopicLabel(main_topic, subtopic) ==
    IF subtopic = 0
       THEN [main |-> main_topic, arrow |-> FALSE, sub |-> 0]
       ELSE [main |-> main_topic, arrow |-> TRUE, sub |-> subtopic]

\* The name "" of a topic; the other names are positive numbers.
EmptyName == 0

\* An entry of topic_structure: a dictionary with 'main_topic' and 'subtopics'
\* (names are the positions in the outline, or the empty name the model may
\* give), or one that lacks a key.
TopicEntry(k, c) == [well_formed |-> TRUE, main_topic |-> k, subtopics |-> [j \in 1..c |-> j]]

MalformedEntry(k) == [well_formed |-> FALSE, main_topic |-> k, subtopics |-> << >>]

\* Number of calls of each generator an entry causes.
Units(entry) == IF Len(entry.subtopics) = 0 THEN 1 ELSE Len(entry.subtopics)

RECURSIVE TotalUnits(_)
TotalUnits(outline) ==
    IF outline = << >> THEN 0 ELSE Units(Head(outline)) + TotalUnits(Tail(outline))

Outlines ==
    { o \in UNION { [1..n -> { TopicEntry(1, c) : c \in 0..MaxUnits }
                                 \cup {TopicEntry(EmptyName, 0), MalformedEntry(0)}] :
                     n \in 0..MaxUnits } :
        TotalUnits(o) <= MaxUnits }

\* The entries named by their position, but for those with the empty name.
Named(o) ==
    [k \in 1..Len(o) |->
        IF o[k].well_formed /\ o[k].main_topic = EmptyName
           THEN o[k]
           ELSE [o[k] EXCEPT !.main_topic = k]]

NoBundle == [returned |-> FALSE, concepts |-> << >>, mcq_questions |-> << >>,
             subjective_questions |-> << >>, total_concepts |-> 0, total_mcqs |-> 0,
             total_subjective |-> 0, main_topics |-> 0]

IdleBundle ==
    /\ configured = TRUE
    /\ topic_structure = << >>
    /\ synth_texts = {}
    /\ b_pc = "idle"
    /\ b_i = 0
    /\ b_j = 0
    /\ all_concepts = << >>
    /\ all_mcqs = << >>
    /\ all_subjective = << >>
    /\ bundle = NoBundle

IdleTopic ==
    /\ t_pc = "idle"
    /\ t_kind = "mcq"
    /\ t_min = 0
    /\ t_start_id = 0
    /\ t_response = Unparseable
    /\ t_batch = << >>

InitPipeline ==
    /\ mainPc = "start"
    /\ pdf_files = << >>
    /\ max_workers = 0
    /\ queue = << >>
    /\ jobPc = [i \in Inputs |-> "none"]
    /\ started = [i \in Inputs |-> 0]
    /\ result = [i \in Inputs |-> "pending"]
    /\ lock = NoHolder
    /\ processed_pdfs = << >>
    /\ index_file = Absent
    /\ index_content = [i \in Inputs |-> NoContent]
    /\ pages = {}
    /\ text_content = [i \in Inputs |-> "unread"]
    /\ reported = {}
    /\ deployCalls = 0
    /\ deployOutcome = "none"
    /\ returned = StillRunning
    /\ cwd = "project"
    /\ deploy_dir = "unbound"
    /\ deploy_temp = FALSE
    /\ git_log = << >>

IdlePath ==
    /\ p_pc = << >>
    /\ p_names = << >>
    /\ p_paths = << >>

\* ------------------------------------------ deploy_to_github: GitHubPagesDeployer
MaxOutputFiles == 2   \* files output/*.html of the project directory

\* The directory deploy: whether it is there, and what it holds (something left
\* by an earlier run, .git, index.html, so many copies of output/*.html,
\* README.md, .nojekyll).
NoDirectory == [exists |-> FALSE, old |-> FALSE, git |-> FALSE, index |-> FALSE,
                outputs |-> 0, readme |-> FALSE, nojekyll |-> FALSE]

EmptyDirectory == [NoDirectory EXCEPT !.exists = TRUE]

OldDirectory == [EmptyDirectory EXCEPT !.old = TRUE]

\* What deploy finds in the project directory: index.html and README.md there
\* or not, and the number of files output/*.html.
Environments == [index : BOOLEAN, readme : BOOLEAN, outputs : 0..MaxOutputFiles]

\* deploy_to_github.py is not running.
IdleDeployer ==
    /\ d_pc = "idle"
    /\ d_env = [index |-> FALSE, readme |-> FALSE, outputs |-> 0]
    /\ d_cwd = "project"
    /\ d_deploy = NoDirectory
    /\ d_git = << >>
    /\ d_outcome = "none"

Init == InitPipeline /\ IdleBundle /\ IdleTopic /\ IdlePath /\ IdleDeployer

\* ------------------------------------------------------------ main thread
\* get_pdf_files without the early return of "if not pdf_files".
get_pdf_files_no_early_return ==
    /\ mainPc = "start"
    /\ \E n \in 0..MaxInputs, w \in 1..MaxWorkers :
          /\ pdf_files' = [k \in 1..n |-> k]
          /\ max_workers' = w
          /\ mainPc' = "create_index"
    /\ UNCHANGED << bundleVars, topicVars, pathVars, deployerVars, deployVars, text_content, queue, jobPc, started, result, lock, processed_pdfs, index_file,
                    index_content, pages, reported, deployCalls, deployOutcome,
                    returned >>

\* process_all_pdfs_parallel(max_workers): setup_directories, get_pdf_files and
\* the early return when no PDF was found.
get_pdf_files ==
    /\ mainPc = "start"
    /\ \E n \in 0..MaxInputs, w \in 1..MaxWorkers :
          /\ pdf_files' = [k \in 1..n |-> k]
          /\ max_workers' = w
          /\ IF n = 0
                THEN /\ mainPc' = "returned"
                     /\ returned' = ReturnNone
                ELSE /\ mainPc' = "create_index"
                     /\ returned' = returned
    /\ UNCHANGED << bundleVars, topicVars, pathVars, deployerVars, deployVars, text_content, queue, jobPc, started, result, lock, processed_pdfs, index_file,
                    index_content, pages, reported, deployCalls, deployOutcome >>

\* create_initial_index_page: open(self.index_file, 'w') truncates the file.
create_initial_index_open ==
    /\ mainPc = "create_index"
    /\ index_file' = Truncated
    /\ mainPc' = "write_initial"
    /\ UNCHANGED << bundleVars, topicVars, pathVars, deployerVars, deployVars, text_content, pdf_files, max_workers, queue, jobPc, started, result, lock,
                    processed_pdfs, index_content, pages, reported, deployCalls,
                    deployOutcome, returned >>

\* create_initial_index_page: f.write(initial_content).
create_initial_index_page ==
    /\ mainPc = "write_initial"
    /\ index_file' = InitialIndexContent(NumFiles)
    /\ mainPc' = "submit"
    /\ UNCHANGED << bundleVars, topicVars, pathVars, deployerVars, deployVars, text_content, pdf_files, max_workers, queue, jobPc, started, result, lock,
                    processed_pdfs, index_content, pages, reported, deployCalls,
                    deployOutcome, returned >>

\* The executor block placed before create_initial_index_page: jobs are
\* submitted while the placeholder is not yet written.
Submit_before_initial_index ==
    /\ mainPc \in {"create_index", "submit"}
    /\ \E k \in 1..NumFiles :
          /\ \A j \in 1..NumFiles : (j < k) <=> (jobPc[pdf_files[j]] # "none")
          /\ queue' = Append(queue, pdf_files[k])
          /\ jobPc' = [jobPc EXCEPT ![pdf_files[k]] = "queued"]
          /\ mainPc' = IF mainPc = "submit" /\ k = NumFiles THEN "as_completed" ELSE mainPc
    /\ UNCHANGED << bundleVars, topicVars, pathVars, deployerVars, deployVars, text_content, pdf_files, max_workers, started, result, lock, processed_pdfs,
                    index_file, index_content, pages, reported, deployCalls,
                    deployOutcome, returned >>

\* executor.submit(self.process_single_pdf, pdf_path) for the next pdf_path of
\* pdf_files.
Submit ==
    /\ mainPc = "submit"
    /\ \E k \in 1..NumFiles :
          /\ \A j \in 1..NumFiles : (j < k) <=> (jobPc[pdf_files[j]] # "none")
          /\ queue' = Append(queue, pdf_files[k])
          /\ jobPc' = [jobPc EXCEPT ![pdf_files[k]] = "queued"]
          /\ mainPc' = IF k = NumFiles THEN "as_completed" ELSE "submit"
    /\ UNCHANGED << bundleVars, topicVars, pathVars, deployerVars, deployVars, text_content, pdf_files, max_workers, started, result, lock, processed_pdfs,
                    index_file, index_content, pages, reported, deployCalls,
                    deployOutcome, returned >>

\* for future in as_completed(future_to_pdf): one finished future is handled.
as_completed(i) ==
    /\ mainPc = "as_completed"
    /\ i \in Range(pdf_files)
    /\ jobPc[i] = "done"
    /\ i \notin reported
    /\ reported' = reported \cup {i}
    /\ UNCHANGED << bundleVars, topicVars, pathVars, deployerVars, deployVars, text_content, mainPc, pdf_files, max_workers, queue, jobPc, started, result, lock,
                    processed_pdfs, index_file, index_content, pages, deployCalls,
                    deployOutcome, returned >>

\* The as_completed loop ends when every future was handled, and the executor's
\* with-block exits (shutdown(wait=True)).
executor_shutdown ==
    /\ mainPc = "as_completed"
    /\ reported = Range(pdf_files)
    /\ mainPc' = "summary"
    /\ UNCHANGED << bundleVars, topicVars, pathVars, deployerVars, deployVars, text_content, pdf_files, max_workers, queue, jobPc, started, result, lock,
                    processed_pdfs, index_file, index_content, pages, reported,
                    deployCalls, deployOutcome, returned >>

\* The deployment called without the test "if self.processed_pdfs".
deploy_unconditionally ==
    /\ mainPc = "summary"
    /\ mainPc' = "deploy"
    /\ UNCHANGED << bundleVars, topicVars, pathVars, deployerVars, deployVars, text_content, pdf_files, max_workers, queue, jobPc, started, result, lock,
                    processed_pdfs, index_file, index_content, pages, reported,
                    deployCalls, deployOutcome, returned >>

\* if self.processed_pdfs: self.deploy_to_github_pages(); the function then ends
\* without a return statement.
deploy_decision ==
    /\ mainPc = "summary"
    /\ IF processed_pdfs # << >>
          THEN /\ mainPc' = "deploy"
               /\ returned' = returned
          ELSE /\ mainPc' = "returned"
               /\ returned' = ReturnNone
    /\ UNCHANGED << bundleVars, topicVars, pathVars, deployerVars, deployVars, text_content, pdf_files, max_workers, queue, jobPc, started, result, lock,
                    processed_pdfs, index_file, index_content, pages, reported,
                    deployCalls, deployOutcome >>

\* The frame of the steps of deploy_to_github_pages: it touches neither the
\* jobs nor processed_pdfs, the index file or the rendered pages.
deployFrame == << bundleVars, topicVars, pathVars, deployerVars, text_content, pdf_files, max_workers, queue, jobPc,
                  started, result, lock, processed_pdfs, index_file, index_content,
                  pages, reported >>

\* github_token = os.getenv('GITHUB_TOKEN'), and input() when it is not set:
\* a token is there; or the prompt is answered with nothing and the function
\* returns; or input() meets the end of standard input and raises EOFError,
\* which is outside the try block and leaves process_all_pdfs_parallel.
deploy_get_token ==
    /\ mainPc = "deploy"
    /\ deployCalls' = deployCalls + 1
    /\ \/ /\ mainPc' = "git_version"
          /\ UNCHANGED << deployOutcome, returned >>
       \/ /\ mainPc' = "returned"
          /\ deployOutcome' = "cancelled"
          /\ returned' = ReturnNone
       \/ /\ mainPc' = "raised"
          /\ deployOutcome' = "raised"
          /\ returned' = Raised
    /\ UNCHANGED << deployFrame, deployVars >>

\* subprocess.run(["git", "--version"], check=True, ...): when it raises, the
\* handlers print and the finally block runs with deploy_dir not yet assigned.
deploy_git_version ==
    /\ mainPc = "git_version"
    /\ git_log' = Append(git_log, "--version")
    /\ \/ /\ mainPc' = "prepare"
          /\ deployOutcome' = deployOutcome
       \/ /\ mainPc' = "finally"
          /\ deployOutcome' = "failed"
    /\ UNCHANGED << deployFrame, cwd, deploy_dir, deploy_temp, deployCalls, returned >>

\* deploy_dir = "deploy_temp"; an old directory is removed and a new one made.
deploy_prepare ==
    /\ mainPc = "prepare"
    /\ deploy_dir' = "deploy_temp"
    /\ deploy_temp' = TRUE
    /\ mainPc' = "copy"
    /\ UNCHANGED << deployFrame, cwd, git_log, deployCalls, deployOutcome, returned >>

\* The index, the rendered pages, README.md and .nojekyll are copied into
\* deploy_temp, then os.chdir(deploy_dir); a copy that raises goes to the
\* handlers and the finally block, with the working directory not yet changed.
deploy_copy_files ==
    /\ mainPc = "copy"
    /\ \/ /\ mainPc' = "git"
          /\ cwd' = "deploy_temp"
          /\ deployOutcome' = deployOutcome
       \/ /\ mainPc' = "finally"
          /\ cwd' = cwd
          /\ deployOutcome' = "failed"
    /\ UNCHANGED << deployFrame, deploy_dir, deploy_temp, git_log, deployCalls, returned >>

\* The git commands run inside deploy_temp, in this order, each with check=True.
GitCommands == << "init", "remote add", "add", "commit", "push --force" >>

\* The git commands run without check=True: a command that fails is noted and
\* the next one runs all the same.
deploy_git_command_unchecked ==
    /\ mainPc = "git"
    /\ LET n == Len(git_log)
       IN /\ git_log' = Append(git_log, GitCommands[n])
          /\ mainPc' = IF n = Len(GitCommands) THEN "finally" ELSE "git"
          /\ \/ deployOutcome' = IF n = Len(GitCommands) /\ deployOutcome # "failed"
                                    THEN "deployed" ELSE deployOutcome
             \/ deployOutcome' = "failed"
    /\ UNCHANGED << deployFrame, cwd, deploy_dir, deploy_temp, deployCalls, returned >>

\* The next git command runs: it succeeds, and after the push the deployment
\* is done, or it raises CalledProcessError and the rest is skipped.
deploy_git_command ==
    /\ mainPc = "git"
    /\ LET n == Len(git_log)
       IN /\ git_log' = Append(git_log, GitCommands[n])
          /\ \/ /\ mainPc' = IF n = Len(GitCommands) THEN "finally" ELSE "git"
                /\ deployOutcome' = IF n = Len(GitCommands) THEN "deployed" ELSE deployOutcome
             \/ /\ mainPc' = "finally"
                /\ deployOutcome' = "failed"
    /\ UNCHANGED << deployFrame, cwd, deploy_dir, deploy_temp, deployCalls, returned >>

\* finally: os.chdir("..") goes one directory up from wherever the process
\* is; then os.path.exists(deploy_dir) raises UnboundLocalError when
\* deploy_dir was never assigned, and otherwise deploy_temp is looked up in
\* the new working directory and removed when it is there.
deploy_finally ==
    /\ mainPc = "finally"
    /\ cwd' = IF cwd = "deploy_temp" THEN "project" ELSE "parent"
    /\ IF deploy_dir = "unbound"
          THEN /\ mainPc' = "raised"
               /\ returned' = Raised
               /\ deployOutcome' = "raised"
               /\ deploy_temp' = deploy_temp
          ELSE /\ mainPc' = "returned"
               /\ returned' = ReturnNone
               /\ deployOutcome' = deployOutcome
               /\ deploy_temp' = IF cwd' = "project" THEN FALSE ELSE deploy_temp
    /\ UNCHANGED << deployFrame, deploy_dir, git_log, deployCalls >>

deploy_to_github_pages ==
    \/ deploy_get_token
    \/ deploy_git_version
    \/ deploy_prepare
    \/ deploy_copy_files
    \/ deploy_git_command
    \/ deploy_finally

\* ------------------------------------------------- process_single_pdf jobs
mainVars == << mainPc, pdf_files, max_workers, reported, deployCalls, deployOutcome,
               returned >>

\* A pool that starts a thread per work item, whatever max_workers is.
worker_start_unbounded(i) ==
    /\ queue # << >>
    /\ i = Head(queue)
    /\ queue' = Tail(queue)
    /\ jobPc' = [jobPc EXCEPT ![i] = "process"]
    /\ started' = [started EXCEPT ![i] = @ + 1]
    /\ UNCHANGED << bundleVars, topicVars, pathVars, deployerVars, deployVars, text_content, mainVars, result, lock, processed_pdfs, index_file, index_content,
                    pages >>

\* A job that takes self.lock as it starts, before the call of the processor.
worker_start_holding_lock(i) ==
    /\ queue # << >>
    /\ i = Head(queue)
    /\ Cardinality({ j \in Inputs : Running(j) }) < max_workers
    /\ lock = NoHolder
    /\ lock' = i
    /\ queue' = Tail(queue)
    /\ jobPc' = [jobPc EXCEPT ![i] = "process"]
    /\ started' = [started EXCEPT ![i] = @ + 1]
    /\ UNCHANGED << bundleVars, topicVars, pathVars, deployerVars, deployVars, text_content, mainVars, result, processed_pdfs, index_file, index_content,
                    pages >>

\* A worker thread of the ThreadPoolExecutor takes the oldest work item; the
\* pool never has more than max_workers threads.
worker_start(i) ==
    /\ queue # << >>
    /\ i = Head(queue)
    /\ Cardinality({ j \in Inputs : Running(j) }) < max_workers
    /\ queue' = Tail(queue)
    /\ jobPc' = [jobPc EXCEPT ![i] = "process"]
    /\ started' = [started EXCEPT ![i] = @ + 1]
    /\ UNCHANGED << bundleVars, topicVars, pathVars, deployerVars, deployVars, text_content, mainVars, result, lock, processed_pdfs, index_file, index_content,
                    pages >>

\* The handler when the lock is taken with acquire() and released only on the
\* normal path: an exception inside the critical section leaves it held.
handle_exception_lock_held(i, pc) ==
    /\ jobPc[i] = pc
    /\ jobPc' = [jobPc EXCEPT ![i] = "done"]
    /\ result' = [result EXCEPT ![i] = "None"]
    /\ lock' = lock

\* "except Exception as e: ... return None" of process_single_pdf, reached from
\* position pc; leaving "with self.lock:" by an exception releases the lock.
handle_exception(i, pc) ==
    /\ jobPc[i] = pc
    /\ jobPc' = [jobPc EXCEPT ![i] = "done"]
    /\ result' = [result EXCEPT ![i] = "None"]
    /\ lock' = IF InCritical(i) /\ lock = i THEN NoHolder ELSE lock

\* text_content = self._extract_text_from_pdf(pdf_path): the text of the pages,
\* or "" when pdfplumber raises (the handler inside prints and returns "").
ExtractedTexts == {"text", "empty"}

\* The input files pdfplumber may fail to read: inputs 2 .. MaxUnreadable + 1.
UnreadableInputs == { i \in Inputs : 2 <= i /\ i <= MaxUnreadable + 1 }

\* What the extraction of input i may give.
TextsOf(i) == IF i \in UnreadableInputs THEN ExtractedTexts ELSE {"text"}

\* content_data = self.processor.process_pdf_with_structured_content(pdf_path):
\* the text is extracted and the bundle is returned, whatever the text was.
process_pdf_returns(i) ==
    /\ jobPc[i] = "process"
    /\ \E t \in TextsOf(i) : text_content' = [text_content EXCEPT ![i] = t]
    /\ jobPc' = [jobPc EXCEPT ![i] = "render"]
    /\ UNCHANGED << bundleVars, topicVars, pathVars, deployerVars, deployVars, mainVars, queue, started, result, lock, processed_pdfs, index_file,
                    index_content, pages >>

\* process_pdf_with_structured_content raises after the extraction (a topic
\* entry without 'main_topic', a concept that is no dict, a processor without
\* configuration).
process_pdf_raises(i) ==
    /\ handle_exception(i, "process")
    /\ \E t \in TextsOf(i) : text_content' = [text_content EXCEPT ![i] = t]
    /\ UNCHANGED << bundleVars, topicVars, pathVars, deployerVars, deployVars, mainVars, queue, started, processed_pdfs, index_file,
                    index_content, pages >>

\* output_filename = self.generate_html_page(pdf_path, content_data): the page
\* file is written, outside the lock.
generate_html_page(i) ==
    /\ jobPc[i] = "render"
    /\ pages' = pages \cup {i}
    /\ jobPc' = [jobPc EXCEPT ![i] = "waitlock"]
    /\ UNCHANGED << bundleVars, topicVars, pathVars, deployerVars, deployVars, text_content, mainVars, queue, started, result, lock, processed_pdfs, index_file,
                    index_content >>

\* generate_html_content raises before the page file is opened.
generate_html_raises(i) ==
    /\ handle_exception(i, "render")
    /\ UNCHANGED << bundleVars, topicVars, pathVars, deployerVars, deployVars, text_content, mainVars, queue, started, processed_pdfs, index_file,
                    index_content, pages >>

\* Entering the critical section without waiting for the lock.
acquire_lock_no_wait(i) ==
    /\ jobPc[i] = "waitlock"
    /\ lock' = i
    /\ jobPc' = [jobPc EXCEPT ![i] = "locked"]
    /\ UNCHANGED << bundleVars, topicVars, pathVars, deployerVars, deployVars, text_content, mainVars, queue, started, result, processed_pdfs, index_file,
                    index_content, pages >>

\* with self.lock: blocks until the lock is free.
acquire_lock(i) ==
    /\ jobPc[i] = "waitlock"
    /\ lock = NoHolder
    /\ lock' = i
    /\ jobPc' = [jobPc EXCEPT ![i] = "locked"]
    /\ UNCHANGED << bundleVars, topicVars, pathVars, deployerVars, deployVars, text_content, mainVars, queue, started, result, processed_pdfs, index_file,
                    index_content, pages >>

\* The job's pdf_info put in front of the list instead of at its end.
insert_pdf_info_first(i) ==
    /\ jobPc[i] = "locked"
    /\ processed_pdfs' = << i >> \o processed_pdfs
    /\ jobPc' = [jobPc EXCEPT ![i] = "appended"]
    /\ UNCHANGED << bundleVars, topicVars, pathVars, deployerVars, deployVars, text_content, mainVars, queue, started, result, lock, index_file, index_content,
                    pages >>

\* The job's pdf_info appended twice.
append_pdf_info_twice(i) ==
    /\ jobPc[i] = "locked"
    /\ processed_pdfs' = processed_pdfs \o << i, i >>
    /\ jobPc' = [jobPc EXCEPT ![i] = "appended"]
    /\ UNCHANGED << bundleVars, topicVars, pathVars, deployerVars, deployVars, text_content, mainVars, queue, started, result, lock, index_file, index_content,
                    pages >>

\* self.processed_pdfs.append(pdf_info)
append_pdf_info(i) ==
    /\ jobPc[i] = "locked"
    /\ processed_pdfs' = Append(processed_pdfs, i)
    /\ jobPc' = [jobPc EXCEPT ![i] = "appended"]
    /\ UNCHANGED << bundleVars, topicVars, pathVars, deployerVars, deployVars, text_content, mainVars, queue, started, result, lock, index_file, index_content,
                    pages >>

\* update_index_page up to open(self.index_file, 'w'): returns at once when
\* processed_pdfs is empty, otherwise builds index_content from processed_pdfs
\* and opens the file, which truncates it.
update_index_open(i) ==
    /\ jobPc[i] = "appended"
    /\ IF processed_pdfs = << >>
          THEN /\ jobPc' = [jobPc EXCEPT ![i] = "written"]
               /\ UNCHANGED << bundleVars, topicVars, pathVars, deployerVars, deployVars, text_content, index_content, index_file >>
          ELSE /\ index_content' = [index_content EXCEPT ![i] = IndexContent(processed_pdfs)]
               /\ index_file' = Truncated
               /\ jobPc' = [jobPc EXCEPT ![i] = "opened"]
    /\ UNCHANGED << bundleVars, topicVars, pathVars, deployerVars, deployVars, text_content, mainVars, queue, started, result, lock, processed_pdfs, pages >>

\* A handler that takes the job's entry back out of processed_pdfs when the
\* index could not be opened.
update_index_open_raises_rollback(i) ==
    /\ handle_exception(i, "appended")
    /\ processed_pdfs' = SubSeq(processed_pdfs, 1, Len(processed_pdfs) - 1)
    /\ UNCHANGED << bundleVars, topicVars, pathVars, deployerVars, deployVars, text_content, mainVars, queue, started, index_file,
                    index_content, pages >>

\* open() raises: the file is left as it was.
update_index_open_raises(i) ==
    /\ handle_exception(i, "appended")
    /\ UNCHANGED << bundleVars, topicVars, pathVars, deployerVars, deployVars, text_content, mainVars, queue, started, processed_pdfs, index_file,
                    index_content, pages >>

\* f.write(index_content) and the close of the file.
update_index_write(i) ==
    /\ jobPc[i] = "opened"
    /\ index_file' = index_content[i]
    /\ jobPc' = [jobPc EXCEPT ![i] = "written"]
    /\ UNCHANGED << bundleVars, topicVars, pathVars, deployerVars, deployVars, text_content, mainVars, queue, started, result, lock, processed_pdfs,
                    index_content, pages >>

\* write() or the flush at close raises: the file stays truncated.
update_index_write_raises(i) ==
    /\ handle_exception(i, "opened")
    /\ UNCHANGED << bundleVars, topicVars, pathVars, deployerVars, deployVars, text_content, mainVars, queue, started, processed_pdfs, index_file,
                    index_content, pages >>

\* The job returns pdf_info from inside a critical section entered with
\* acquire() and never left with release().
return_without_release(i) ==
    /\ jobPc[i] = "written"
    /\ result' = [result EXCEPT ![i] = "info"]
    /\ jobPc' = [jobPc EXCEPT ![i] = "done"]
    /\ UNCHANGED << bundleVars, topicVars, pathVars, deployerVars, deployVars, text_content, mainVars, queue, started, lock, processed_pdfs, index_file,
                    index_content, pages >>

\* The with-block ends, releasing the lock, and the job returns pdf_info.
release_and_return(i) ==
    /\ jobPc[i] = "written"
    /\ lock' = IF lock = i THEN NoHolder ELSE lock
    /\ result' = [result EXCEPT ![i] = "info"]
    /\ jobPc' = [jobPc EXCEPT ![i] = "done"]
    /\ UNCHANGED << bundleVars, topicVars, pathVars, deployerVars, deployVars, text_content, mainVars, queue, started, processed_pdfs, index_file,
                    index_content, pages >>

process_single_pdf(i) ==
    \/ worker_start(i)
    \/ process_pdf_returns(i)
    \/ process_pdf_raises(i)
    \/ generate_html_page(i)
    \/ generate_html_raises(i)
    \/ acquire_lock(i)
    \/ append_pdf_info(i)
    \/ update_index_open(i)
    \/ update_index_open_raises(i)
    \/ update_index_write(i)
    \/ update_index_write_raises(i)
    \/ release_and_return(i)

Next ==
    \/ get_pdf_files
    \/ create_initial_index_open
    \/ create_initial_index_page
    \/ Submit
    \/ \E i \in Inputs : as_completed(i)
    \/ executor_shutdown
    \/ deploy_decision
    \/ deploy_to_github_pages
    \/ \E i \in Inputs : process_single_pdf(i)

Spec == Init /\ [][Next]_vars

\* Well-formedness of the state.
TypeOK ==
    /\ mainPc \in {"start", "create_index", "write_initial", "submit", "as_completed",
                   "summary", "deploy", "git_version", "prepare", "copy", "git",
                   "finally", "returned", "raised"}
    /\ cwd \in {"project", "deploy_temp", "parent"}
    /\ deploy_temp \in BOOLEAN
    /\ returned \in {StillRunning, ReturnNone, Raised}
    /\ max_workers \in 0..MaxWorkers
    /\ lock \in Inputs \cup {NoHolder}
    /\ \A i \in Inputs : result[i] \in {"pending", "info", "None"}
    /\ reported \subseteq Inputs
    /\ pages \subseteq Inputs
    /\ \A i \in Inputs : text_content[i] \in {"unread"} \cup ExtractedTexts

\* ------------------------- process_pdf_with_structured_content, one document
\* What _call_ai_api hands back: without configuration it catches its own
\* AttributeError and returns "", which holds no JSON object. In a
\* whole-document run every item of an answer has a 'question'; items without
\* one are answers of the single calls below.
ModelAnswers ==
    IF configured
       THEN Responses({ SynthItem(t) : t \in synth_texts }, MaxBundleItems)
       ELSE {Unparseable}

ConceptAnswers ==
    IF configured THEN ConceptResponses ELSE {[shape |-> "unparseable", items |-> << >>]}

\* min_mcqs / min_subjective of the current call.
CurrentMin == IF b_j = 0 THEN MinMainTopic ELSE MinSubtopic

\* The document's outline is known and the loop over topic_structure begins.
\* Without configuration the outline comes from _extract_headings_from_text:
\* topics without subtopics.
InitBundle ==
    /\ InitPipeline
    /\ IdleTopic
    /\ IdlePath
    /\ IdleDeployer
    /\ configured \in BOOLEAN
    /\ topic_structure \in { Named(o) : o \in Outlines }
    /\ configured \/ \A k \in 1..Len(topic_structure) :
                        /\ topic_structure[k].well_formed
                        /\ topic_structure[k].subtopics = << >>
    /\ synth_texts = BundleTexts
    /\ b_pc = "topic"
    /\ b_i = 1
    /\ b_j = 0
    /\ all_concepts = << >>
    /\ all_mcqs = << >>
    /\ all_subjective = << >>
    /\ bundle = NoBundle

\* for i, topic_info in enumerate(topic_structure): main_topic and subtopics are
\* read (KeyError when the entry lacks them), and "if subtopics" chooses the
\* branch.
enter_topic ==
    /\ b_pc = "topic"
    /\ IF b_i > Len(topic_structure)
          THEN /\ b_pc' = "stats"
               /\ b_j' = b_j
          ELSE IF ~topic_structure[b_i].well_formed
                  THEN /\ b_pc' = "raised"
                       /\ b_j' = b_j
                  ELSE /\ b_pc' = "concepts"
                       /\ b_j' = IF topic_structure[b_i].subtopics # << >> THEN 1 ELSE 0
    /\ UNCHANGED << pipelineVars, topicVars, configured, topic_structure, synth_texts, b_i,
                    all_concepts, all_mcqs, all_subjective, bundle >>

\* _generate_concepts_for_topic(..., min_concepts=1) with pdf_images = [], then
\* concept['topic'] = ... for each concept (TypeError when a concept is no
\* dictionary) and all_concepts.extend.
generate_concepts ==
    /\ b_pc = "concepts"
    /\ \E r \in ConceptAnswers :
          LET concepts == generate_text_only_concepts(r, MinConcepts)
              label == TopicLabel(topic_structure[b_i].main_topic,
                                  IF b_j = 0 THEN 0 ELSE topic_structure[b_i].subtopics[b_j])
          IN IF \E k \in 1..Len(concepts) : ~concepts[k].is_dict
                THEN /\ b_pc' = "raised"
                     /\ all_concepts' = all_concepts
                ELSE /\ b_pc' = "mcqs"
                     /\ all_concepts' = all_concepts \o
                           [k \in 1..Len(concepts) |->
                               [concepts[k] EXCEPT !.topic = label, !.path = << b_i, b_j >>]]
    /\ UNCHANGED << pipelineVars, topicVars, configured, topic_structure, synth_texts, b_i,
                    b_j, all_mcqs, all_subjective, bundle >>

\* _generate_mcqs_for_topic(..., min_mcqs, start_id=len(all_mcqs) + 1) and
\* all_mcqs.extend.
generate_mcqs ==
    /\ b_pc = "mcqs"
    /\ \E r \in ModelAnswers :
          all_mcqs' = all_mcqs \o generate_mcqs_for_topic(r, CurrentMin, Len(all_mcqs) + 1)
    /\ b_pc' = "subjective"
    /\ UNCHANGED << pipelineVars, topicVars, configured, topic_structure, synth_texts, b_i,
                    b_j, all_concepts, all_subjective, bundle >>

\* _generate_subjective_for_topic(..., min_subjective,
\* start_id=len(all_subjective) + 1) and all_subjective.extend; then the next
\* subtopic or the next topic.
generate_subjective ==
    /\ b_pc = "subjective"
    /\ \E r \in ModelAnswers :
          all_subjective' = all_subjective \o
              generate_subjective_for_topic(r, CurrentMin, Len(all_subjective) + 1)
    /\ IF b_j # 0 /\ b_j < Len(topic_structure[b_i].subtopics)
          THEN /\ b_j' = b_j + 1
               /\ b_i' = b_i
               /\ b_pc' = "concepts"
          ELSE /\ b_j' = 0
               /\ b_i' = b_i + 1
               /\ b_pc' = "topic"
    /\ UNCHANGED << pipelineVars, topicVars, configured, topic_structure, synth_texts,
                    all_concepts, all_mcqs, bundle >>

\* The returned dictionary; 'images_used': len(self.used_images) raises
\* AttributeError when __init__ returned before setting used_images.
build_result ==
    /\ b_pc = "stats"
    /\ IF ~configured
          THEN /\ b_pc' = "raised"
               /\ bundle' = bundle
          ELSE /\ b_pc' = "done"
               /\ bundle' = [returned |-> TRUE,
                             concepts |-> all_concepts,
                             mcq_questions |-> all_mcqs,
                             subjective_questions |-> all_subjective,
                             total_concepts |-> Len(all_concepts),
                             total_mcqs |-> Len(all_mcqs),
                             total_subjective |-> Len(all_subjective),
                             main_topics |-> Len(topic_structure)]
    /\ UNCHANGED << pipelineVars, topicVars, configured, topic_structure, synth_texts, b_i,
                    b_j, all_concepts, all_mcqs, all_subjective >>

NextBundle ==
    \/ enter_topic
    \/ generate_concepts
    \/ generate_mcqs
    \/ generate_subjective
    \/ build_result

SpecBundle == InitBundle /\ [][NextBundle]_vars

\* ------------------------------------------ one call of a generator for a topic
\* The caller passes min_mcqs / min_subjective 3 or 2 and min_concepts 1.
InitTopic ==
    /\ InitPipeline
    /\ IdleBundle
    /\ IdlePath
    /\ IdleDeployer
    /\ t_pc = "call"
    /\ t_kind \in {"mcq", "subjective", "concept"}
    /\ t_start_id \in 1..MaxStartId
    /\ IF t_kind = "concept"
          THEN /\ t_min = MinConcepts
               /\ t_response \in ConceptResponses
          ELSE /\ t_min \in {MinSubtopic, MinMainTopic}
               /\ t_response \in
                     Responses({ SynthItem(t) : t \in CallTexts(t_kind, t_start_id + 1) }
                                   \cup {ItemWithoutQuestion}, MaxItems)
    /\ t_batch = << >>

call_generate_mcqs ==
    /\ t_pc = "call"
    /\ t_kind = "mcq"
    /\ t_batch' = generate_mcqs_for_topic(t_response, t_min, t_start_id)
    /\ t_pc' = "returned"
    /\ UNCHANGED << pipelineVars, bundleVars, t_kind, t_min, t_start_id, t_response >>

call_generate_subjective ==
    /\ t_pc = "call"
    /\ t_kind = "subjective"
    /\ t_batch' = generate_subjective_for_topic(t_response, t_min, t_start_id)
    /\ t_pc' = "returned"
    /\ UNCHANGED << pipelineVars, bundleVars, t_kind, t_min, t_start_id, t_response >>

\* _generate_concepts_for_topic with pdf_images = []: the text-only branch.
call_generate_concepts ==
    /\ t_pc = "call"
    /\ t_kind = "concept"
    /\ t_batch' = generate_text_only_concepts(t_response, t_min)
    /\ t_pc' = "returned"
    /\ UNCHANGED << pipelineVars, bundleVars, t_kind, t_min, t_start_id, t_response >>

NextTopic ==
    \/ call_generate_mcqs
    \/ call_generate_subjective
    \/ call_generate_concepts

SpecTopic == InitTopic /\ [][NextTopic]_vars

\* ------------------------------- generate_html_page: the output path
MaxNameLen == 3       \* units a base name is made of

\* What base names are made of: a run of letters and digits (here the word
\* "index"), a character that is none of letter, digit, ' ', '-', '_', a space,
\* and the separator ' - '.
NameUnits == {"index", "!", " ", " - "}

\* The characters of a base name given by its units.
RECURSIVE Expand(_)
Expand(units) ==
    IF units = << >>
       THEN << >>
       ELSE (IF Head(units) = " - " THEN << " ", "-", " " >> ELSE << Head(units) >>)
            \o Expand(Tail(units))

\* base_name = os.path.splitext(os.path.basename(pdf_path))[0] of the files
\* glob finds.
BaseNames == { Expand(u) : u \in UNION { [1..n -> NameUnits] : n \in 1..MaxNameLen } }

\* str.rstrip() and str.strip()
RECURSIVE str_rstrip(_)
str_rstrip(str) ==
    IF str # << >> /\ str[Len(str)] = " "
       THEN str_rstrip(SubSeq(str, 1, Len(str) - 1))
       ELSE str

RECURSIVE str_lstrip(_)
str_lstrip(str) ==
    IF str # << >> /\ Head(str) = " " THEN str_lstrip(Tail(str)) ELSE str

str_strip(str) == str_rstrip(str_lstrip(str))

\* base_name.split(' - ', 1)
split_once(str) ==
    LET at == { k \in 1..(Len(str) - 2) :
                  str[k] = " " /\ str[k + 1] = "-" /\ str[k + 2] = " " }
    IN IF at = {}
          THEN << str >>
          ELSE LET k == CHOOSE m \in at : \A o \in at : m <= o
               IN << SubSeq(str, 1, k - 1), SubSeq(str, k + 3, Len(str)) >>

\* c.isalnum() or c in (' ', '-', '_')
kept_char(c) == c \in {"index", " ", "-"}

\* "".join(c for c in name if c.isalnum() or c in (' ', '-', '_')).rstrip()
clean_name(str) == str_rstrip(SelectSeq(str, kept_char))

\* output_path of generate_html_page: the folder below output_dir (none when
\* the name has no separator; os.path.join with an empty folder name gives
\* output_dir itself) and the file name without ".html".
output_path(base_name) ==
    LET parts == split_once(base_name)
    IN IF Len(parts) > 1
          THEN [folder |-> clean_name(str_strip(parts[1])),
                file |-> clean_name(str_strip(parts[2]))]
          ELSE [folder |-> << >>, file |-> clean_name(base_name)]

\* self.index_file = "index.html", in output_dir = "."
IndexPath == [folder |-> << >>, file |-> << "index" >>]

NoPath == [folder |-> << >>, file |-> << >>]

\* Two different PDF files of one run, each about to be rendered.
InitPath ==
    /\ InitPipeline
    /\ IdleBundle
    /\ IdleTopic
    /\ IdleDeployer
    /\ p_names \in { n \in [1..2 -> BaseNames] : n[1] # n[2] }
    /\ p_pc = [k \in 1..2 |-> "call"]
    /\ p_paths = [k \in 1..2 |-> NoPath]

\* generate_html_page of job k computes output_path and writes the page there.
write_page(k) ==
    /\ p_pc[k] = "call"
    /\ p_paths' = [p_paths EXCEPT ![k] = output_path(p_names[k])]
    /\ p_pc' = [p_pc EXCEPT ![k] = "written"]
    /\ UNCHANGED << bundleVars, topicVars, deployerVars, deployVars, text_content, mainVars,
                    queue, jobPc, started, result, lock, processed_pdfs, index_file,
                    index_content, pages, p_names >>

NextPath == \E k \in 1..2 : write_page(k)

SpecPath == InitPath /\ [][NextPath]_vars

\* ------------------------------------------ GitHubPagesDeployer.deploy
\* GitHubPagesDeployer() is constructed (deploy_dir = "deploy") and deploy() is
\* called in the project directory.
InitDeployer ==
    /\ InitPipeline
    /\ IdleBundle
    /\ IdleTopic
    /\ IdlePath
    /\ d_pc = "setup"
    /\ d_env \in Environments
    /\ d_cwd = "project"
    /\ d_deploy \in {NoDirectory, OldDirectory}
    /\ d_git = << >>
    /\ d_outcome = "none"

deployerFrame == << bundleVars, topicVars, pathVars, deployVars, text_content, mainVars,
                    queue, jobPc, started, result, lock, processed_pdfs, index_file,
                    index_content, pages >>

\* setup_deployment: an old deploy directory is removed and a new one made; or
\* rmtree / makedirs raises and "except Exception" of deploy takes over.
setup_deployment_makedirs ==
    /\ d_pc = "setup"
    /\ \/ /\ d_deploy' = EmptyDirectory
          /\ d_pc' = "chdir"
          /\ d_outcome' = d_outcome
       \/ /\ d_deploy' = d_deploy
          /\ d_pc' = "finally"
          /\ d_outcome' = "failed"
    /\ UNCHANGED << deployerFrame, d_env, d_cwd, d_git >>

\* setup_deployment: os.chdir(self.deploy_dir)
setup_deployment_chdir ==
    /\ d_pc = "chdir"
    /\ d_cwd' = "deploy"
    /\ d_pc' = "git_init"
    /\ UNCHANGED << deployerFrame, d_env, d_deploy, d_git, d_outcome >>

\* setup_deployment: git init and git remote add with check=True; a failing
\* command raises CalledProcessError into "except Exception" of deploy.
setup_deployment_git ==
    /\ d_pc \in {"git_init", "remote_add"}
    /\ d_git' = Append(d_git, IF d_pc = "git_init" THEN "init" ELSE "remote add")
    /\ \/ /\ d_pc' = IF d_pc = "git_init" THEN "remote_add" ELSE "copy_index"
          /\ d_deploy' = [d_deploy EXCEPT !.git = TRUE]
          /\ d_outcome' = d_outcome
       \/ /\ d_pc' = "finally"
          /\ d_deploy' = d_deploy
          /\ d_outcome' = "failed"
    /\ UNCHANGED << deployerFrame, d_env, d_cwd >>

\* copy_files_for_deployment: shutil.copy("../index.html", "index.html") raises
\* FileNotFoundError when the project has no index.html.
copy_index ==
    /\ d_pc = "copy_index"
    /\ IF d_env.index
          THEN /\ d_deploy' = [d_deploy EXCEPT !.index = TRUE]
               /\ d_pc' = "copy_output"
               /\ d_outcome' = d_outcome
          ELSE /\ d_deploy' = d_deploy
               /\ d_pc' = "finally"
               /\ d_outcome' = "failed"
    /\ UNCHANGED << deployerFrame, d_env, d_cwd, d_git >>

\* copy_files_for_deployment: the loop over glob.glob("../output/*.html").
copy_output_file ==
    /\ d_pc = "copy_output"
    /\ IF d_deploy.outputs < d_env.outputs
          THEN /\ d_deploy' = [d_deploy EXCEPT !.outputs = @ + 1]
               /\ d_pc' = d_pc
          ELSE /\ d_deploy' = d_deploy
               /\ d_pc' = "copy_readme"
    /\ UNCHANGED << deployerFrame, d_env, d_cwd, d_git, d_outcome >>

\* copy_files_for_deployment: README.md when it exists, then .nojekyll.
copy_readme_and_nojekyll ==
    /\ d_pc = "copy_readme"
    /\ d_deploy' = [d_deploy EXCEPT !.readme = d_env.readme, !.nojekyll = TRUE]
    /\ d_pc' = "git_add"
    /\ UNCHANGED << deployerFrame, d_env, d_cwd, d_git, d_outcome >>

\* commit_and_push: git add, git commit, git push with check=True; its own
\* handler catches CalledProcessError, prints, and the function returns.
commit_and_push ==
    /\ d_pc \in {"git_add", "commit", "push"}
    /\ d_git' = Append(d_git, IF d_pc = "git_add" THEN "add" ELSE d_pc)
    /\ \/ /\ d_pc' = IF d_pc = "git_add" THEN "commit"
                     ELSE IF d_pc = "commit" THEN "push" ELSE "finally"
          /\ d_outcome' = IF d_pc = "push" THEN "pushed" ELSE d_outcome
       \/ /\ d_pc' = "finally"
          /\ d_outcome' = "push_failed"
    /\ UNCHANGED << deployerFrame, d_env, d_cwd, d_deploy >>

\* finally: if os.path.exists(self.deploy_dir): shutil.rmtree(self.deploy_dir).
\* The relative path "deploy" is looked up in the working directory of the
\* moment; inside deploy there is no entry of that name.
deployer_finally ==
    /\ d_pc = "finally"
    /\ d_deploy' = IF d_cwd = "project" /\ d_deploy.exists THEN NoDirectory ELSE d_deploy
    /\ d_pc' = "returned"
    /\ UNCHANGED << deployerFrame, d_env, d_cwd, d_git, d_outcome >>

NextDeployer ==
    \/ setup_deployment_makedirs
    \/ setup_deployment_chdir
    \/ setup_deployment_git
    \/ copy_index
    \/ copy_output_file
    \/ copy_readme_and_nojekyll
    \/ commit_and_push
    \/ deployer_finally

SpecDeployer == InitDeployer /\ [][NextDeployer]_vars

\* ------------------------------------------------------------------ claims
RunOver ==
    mainPc \in {"summary", "deploy", "git_version", "prepare", "copy", "git", "finally",
                "returned", "raised"}

BeforeSubmit == mainPc \in {"start", "create_index", "write_initial"}

\* C1: failure isolation. Whatever jobs fail, the run ends only when every
\* submitted job has finished, every job that did not fail is in processed_pdfs
\* exactly once, and until the run has returned some step can always be taken (a
\* failed job blocks nobody).
C1_FailureIsolation ==
    /\ (RunOver /\ NumFiles > 0) =>
          \A i \in Range(pdf_files) :
             /\ jobPc[i] = "done"
             /\ result[i] \in {"info", "None"}
             /\ (result[i] = "info") => (Count(processed_pdfs, i) = 1)
    /\ (returned = StillRunning) => ENABLED Next

\* A finished run in which one job failed and another, finishing after it, was
\* appended.
C1_Witness ==
    /\ mainPc = "returned"
    /\ \E i, j \in Range(pdf_files) :
          /\ result[i] = "None"
          /\ result[j] = "info"
          /\ processed_pdfs[Len(processed_pdfs)] = j

\* C2: concurrency safety as claimed. Once the run is over every successfully
\* processed input is exactly once in processed_pdfs and exactly once in the
\* index on disk.
C2_ExactlyOnceInFinalIndex ==
    RunOver =>
       \A i \in Range(pdf_files) :
          (result[i] = "info") =>
             /\ Count(processed_pdfs, i) = 1
             /\ Count(index_file.entries, i) = 1

C4_IndexAlwaysComplete ==
    (~BeforeSubmit /\ NumFiles > 0) =>
       \/ index_file = InitialIndexContent(NumFiles)
       \/ /\ index_file.kind = "index"
          /\ index_file.entries = SubSeq(processed_pdfs, 1, Len(index_file.entries))

\* C5: deploy_to_github_pages is called at most once, only when every job has
\* finished and the lock is free, and exactly when processed_pdfs is not empty.
C5_PublishOnce ==
    /\ deployCalls <= 1
    /\ (mainPc = "deploy" \/ deployCalls = 1) =>
          /\ \A i \in Range(pdf_files) : jobPc[i] = "done"
          /\ queue = << >>
          /\ lock = NoHolder
          /\ processed_pdfs # << >>
    /\ (mainPc = "returned") => ((deployCalls = 1) <=> (processed_pdfs # << >>))

\* A finished run that deployed although one of its jobs failed.
C5_Witness ==
    /\ mainPc = "returned"
    /\ deployCalls = 1
    /\ \E i \in Range(pdf_files) : result[i] = "None"

C7_PlaceholderFirst ==
    /\ (\E i \in Inputs : jobPc[i] # "none") => ~BeforeSubmit
    /\ (mainPc = "submit" /\ \A i \in Inputs : jobPc[i] = "none") =>
          (index_file = InitialIndexContent(NumFiles))
    /\ (index_file.kind = "placeholder") =>
          /\ index_file = InitialIndexContent(NumFiles)
          /\ \A i \in Inputs : jobPc[i] \notin {"opened", "written"} /\ result[i] # "info"

\* A job has been submitted and waits in the queue with the placeholder on disk.
C7_Witness ==
    /\ index_file = InitialIndexContent(NumFiles)
    /\ NumFiles > 1
    /\ \E i \in Inputs : jobPc[i] = "queued"

\* C8: each discovered input is dispatched exactly once and never more than
\* max_workers jobs run together.
C8_OneJobPerInputBoundedPool ==
    /\ (mainPc # "start") => (Cardinality({ i \in Inputs : Running(i) }) <= max_workers)
    /\ \A i \in Inputs :
          /\ started[i] <= 1
          /\ Count(queue, i) + started[i] <= 1
          /\ (i \notin Range(pdf_files)) => (jobPc[i] = "none" /\ started[i] = 0)
    /\ (mainPc \notin {"start", "create_index", "write_initial", "submit"} /\ NumFiles > 0) =>
          \A i \in Range(pdf_files) : Count(queue, i) + started[i] = 1
    /\ (RunOver /\ NumFiles > 0) => \A i \in Range(pdf_files) : started[i] = 1

\* The pool is full: max_workers jobs run and another waits in the queue.
C8_Witness ==
    /\ queue # << >>
    /\ Cardinality({ i \in Inputs : Running(i) }) = max_workers
    /\ mainPc = "as_completed"

\* the sequence 1, 2, ..., n
Ids(items) == [k \in 1..Len(items) |-> items[k].id]

Iota(n) == [k \in 1..n |-> k]

\* C9: identifiers as claimed. In every returned bundle the ids of mcq_questions
\* are 1..len(mcq_questions) in order, and likewise those of
\* subjective_questions.
C9_SequentialIds ==
    (b_pc = "done") =>
       /\ Ids(bundle.mcq_questions) = Iota(Len(bundle.mcq_questions))
       /\ Ids(bundle.subjective_questions) = Iota(Len(bundle.subjective_questions))

\* C10: the minimum-count law as claimed. A call for a topic without subtopics
\* returns at least 3 items and a call for a subtopic at least 2.
C10_MinimumCount ==
    (t_pc = "returned") => (Len(t_batch) >= t_min)

\* C11: the extraction-failure scenario as claimed. With 3 inputs, when the text
\* of input 2 could not be extracted the job of input 2 yields no pdf_info, and
\* the finished run has inputs 1 and 3 only in processed_pdfs and in the index
\* on disk.
C11_ExtractionFailureAbandonsJob ==
    (RunOver /\ NumFiles = 3 /\ text_content[2] = "empty"
             /\ result[1] = "info" /\ result[3] = "info") =>
       /\ result[2] = "None"
       /\ Range(processed_pdfs) = {1, 3}
       /\ Range(index_file.entries) = {1, 3}

\* C12: synthesis failures as claimed. With a well-formed outline, whatever the
\* model answers and whether or not the processor is configured,
\* process_pdf_with_structured_content never raises, and once it has returned
\* every topic and subtopic has contributed its minimum of one concept.
C12_SynthesisFailureNeverSurfaces ==
    (\A k \in 1..Len(topic_structure) : topic_structure[k].well_formed) =>
       /\ b_pc # "raised"
       /\ (b_pc = "done") => (bundle.total_concepts >= TotalUnits(topic_structure))

C14_AtMostOneResultPerInput ==
    (NumFiles > 0) =>
       /\ Len(processed_pdfs) <= NumFiles
       /\ Range(processed_pdfs) \subseteq Range(pdf_files)
       /\ \A k, m \in 1..Len(processed_pdfs) :
             (k # m) => (processed_pdfs[k] # processed_pdfs[m])

\* A finished run in which every one of several inputs has its entry.
C14_Witness ==
    /\ mainPc = "returned"
    /\ NumFiles >= 2
    /\ Len(processed_pdfs) = NumFiles

\* The number of questions of one kind the minimum-count contract gives an
\* outline: 3 for a topic without subtopics, 2 for each subtopic.
RECURSIVE ContractQuestions(_)
ContractQuestions(outline) ==
    IF outline = << >>
       THEN 0
       ELSE (IF Head(outline).subtopics = << >>
                THEN MinMainTopic
                ELSE Len(Head(outline).subtopics) * MinSubtopic)
            + ContractQuestions(Tail(outline))

\* C15: count determinism as claimed. The totals of a returned bundle are a
\* function of the outline alone, the one the minimum-count contract gives,
\* whatever the model answered: any two runs over the same outline agree.
C15_CountsDependOnOutlineOnly ==
    (b_pc = "done") =>
       /\ bundle.total_concepts = TotalUnits(topic_structure) * MinConcepts
       /\ bundle.total_mcqs = ContractQuestions(topic_structure)
       /\ bundle.total_subjective = ContractQuestions(topic_structure)

\* An item made by _generate_additional_mcqs or _generate_additional_subjective.
IsPlaceholder(item) ==
    item.question.word.kind \in {"Additional MCQ question", "Additional subjective question"}
    /\ item.question.upper

\* The placeholder items of a list.
Placeholders(items) == { k \in 1..Len(items) : IsPlaceholder(items[k]) }

\* C16: backfill as claimed. In a returned bundle every placeholder item carries
\* the id its text names, and the question texts of the placeholder items are
\* pairwise distinct, among the MCQs and among the subjective questions.
C16_PlaceholdersDistinctInBundle ==
    (b_pc = "done") =>
       \A items \in {bundle.mcq_questions, bundle.subjective_questions} :
          /\ \A k \in Placeholders(items) : items[k].question.word.n = items[k].id
          /\ \A k, m \in Placeholders(items) :
                (k # m) => (items[k].question # items[m].question)

\* The job is in the call of the processor (extraction and synthesis) or in
\* the rendering of its page.
InExternalCall(i) == jobPc[i] \in {"process", "render"}

\* C17: the lock is held only inside the append and index rewrite. A job in
\* its extraction, synthesis or rendering phase does not hold self.lock, the
\* holder is always inside "with self.lock:", and while a job is in such a
\* phase a job waiting for the lock can take it as soon as nobody is inside.
C17_NoLockDuringExternalCalls ==
    /\ \A i \in Inputs :
          /\ InExternalCall(i) => (lock # i)
          /\ (lock = i) => InCritical(i)
    /\ \A i, j \in Inputs :
          (/\ InExternalCall(i)
           /\ jobPc[j] = "waitlock"
           /\ \A k \in Inputs : ~InCritical(k)) => ENABLED acquire_lock(j)

\* A job that started later has appended, rewritten the index and returned
\* its pdf_info while the first job is still in the call of the processor.
C17_Witness ==
    /\ jobPc[1] = "process"
    /\ \E j \in Inputs :
          /\ j # 1
          /\ result[j] = "info"
          /\ index_file = IndexContent(<< j >>)

\* C18: processed_pdfs is empty when the pipeline starts, and every step
\* either leaves it as it is or appends exactly one entry at its end: no entry
\* is removed, reordered or changed.
C18_AppendOnly ==
    /\ processed_pdfs = << >>
    /\ [][\/ processed_pdfs' = processed_pdfs
          \/ \E i \in Inputs : processed_pdfs' = Append(processed_pdfs, i)]_vars

\* A second entry has just been appended behind the first, by a job still
\* inside the lock.
C18_Witness ==
    /\ Len(processed_pdfs) = 2
    /\ \E i \in Inputs : jobPc[i] = "appended" /\ processed_pdfs[2] = i

\* C19: publish failures as claimed. Once deploy_to_github_pages has been
\* called the run never ends by an exception, whichever step of the deployment
\* fails, and no step of the deployment changes processed_pdfs, the index on
\* disk or the set of rendered pages.
C19_PublishFailureReportedAndFramed ==
    /\ []((deployCalls = 1) => (returned # Raised))
    /\ [][(deployCalls' = 1) =>
            /\ processed_pdfs' = processed_pdfs
            /\ index_file' = index_file
            /\ pages' = pages]_vars

\* The label is the empty string: no arrow and the empty main topic name.
IsEmptyLabel(label) == ~label.arrow /\ label.main = EmptyName

\* The label of position << i, j >> of the outline: "main -> subtopic" for
\* subtopic j of entry i, the main topic name for j = 0.
PathLabel(path) ==
    TopicLabel(topic_structure[path[1]].main_topic,
               IF path[2] = 0 THEN 0 ELSE topic_structure[path[1]].subtopics[path[2]])

\* C20: concept labels as claimed. Every concept of a returned bundle, a
\* placeholder too, has a topic label that is not empty and is the label of
\* the position of the outline it was generated for.
C20_ConceptsLabelled ==
    (b_pc = "done") =>
       \A k \in 1..Len(bundle.concepts) :
          /\ ~IsEmptyLabel(bundle.concepts[k].topic)
          /\ bundle.concepts[k].topic = PathLabel(bundle.concepts[k].path)

\* C21: the persisted index as claimed. The index a job builds and writes
\* inside the lock is the rendering of processed_pdfs at that moment, and
\* whenever the lock is free and some job has returned its pdf_info the index
\* on disk is the rendering of the current processed_pdfs.
C21_IndexIsRenderingOfAggregate ==
    /\ \A i \in Inputs :
          /\ (jobPc[i] = "opened") => (index_content[i] = IndexContent(processed_pdfs))
          /\ (jobPc[i] = "written") => (index_file = IndexContent(processed_pdfs))
    /\ (lock = NoHolder /\ \E i \in Inputs : result[i] = "info") =>
          (index_file = IndexContent(processed_pdfs))

\* C22: the index file as claimed, for the page writes: whatever the name of
\* an input, the page generate_html_page writes outside the lock is not at
\* the path of the index file.
C22_PageNeverAtIndexPath ==
    \A k \in 1..Len(p_pc) : (p_pc[k] = "written") => (p_paths[k] # IndexPath)

\* The position in the model answer of the item that got the given id
\* (ids are start_id, start_id + 1, ... in the order of the answer).
PositionOf(id) == id - t_start_id + 1

\* C23: a batch returned by _generate_mcqs_for_topic or
\* _generate_subjective_for_topic never holds two items whose question text is
\* equal after lower-casing and trimming, and of several such items of the
\* model answer only the first in order is kept: no item of the answer before
\* a kept item has the kept item's text, and the batch keeps the order of the
\* answer.
C23_NoDuplicateQuestions ==
    (t_pc = "returned" /\ t_kind # "concept") =>
       /\ \A m, n \in 1..Len(t_batch) :
             (m < n) => /\ question_text(t_batch[m]) # question_text(t_batch[n])
                        /\ t_batch[m].id < t_batch[n].id
       /\ \A m \in 1..Len(t_batch) :
             \A p \in 1..Len(t_response.items) :
                (p < PositionOf(t_batch[m].id)) =>
                   (question_text(t_response.items[p]) # question_text(t_batch[m]))

\* A returned batch of two or more items for a model answer whose first item
\* comes again later in other letter case and with white space around it; the
\* first one is in the batch.
C23_Witness ==
    /\ t_pc = "returned"
    /\ t_kind # "concept"
    /\ Len(t_batch) >= 2
    /\ \E p \in 2..Len(t_response.items) :
          /\ t_response.items[p].question # t_response.items[1].question
          /\ question_text(t_response.items[p]) = question_text(t_response.items[1])
    /\ t_batch[1].question = t_response.items[1].question

\* The git commands of a deployment in the order of the code, after the check
\* that git is there.
ProtocolOrder == << "--version" >> \o GitCommands

\* C24: the publish protocol of deploy_to_github_pages. When the deployment is
\* cancelled for want of a token, no git command has run and deploy_temp was
\* not made. Otherwise a git command runs only while no earlier step has
\* failed, and it is the next one of init, remote add, add, commit,
\* push --force; so the push is tried only after all the others succeeded, and
\* a deployment counts as done only after the whole sequence.
C24_PublishProtocolOrder ==
    /\ []((deployOutcome = "cancelled") =>
             (git_log = << >> /\ ~deploy_temp /\ deploy_dir = "unbound"))
    /\ []((deployOutcome = "deployed") => (git_log = ProtocolOrder))
    /\ [][(git_log' # git_log) =>
             /\ deployOutcome \notin {"failed", "cancelled", "raised"}
             /\ Len(git_log) < Len(ProtocolOrder)
             /\ git_log' = Append(git_log, ProtocolOrder[Len(git_log) + 1])]_vars

\* The push has been tried and failed after init, remote add, add and commit
\* succeeded.
C24_Witness ==
    /\ git_log = ProtocolOrder
    /\ deployOutcome = "failed"

\* C25: distinct output paths as claimed. For two inputs of one run with
\* different file names, the paths generate_html_page writes their pages to
\* are different.
C25_DistinctNamesDistinctPaths ==
    (Len(p_pc) = 2 /\ p_pc[1] = "written" /\ p_pc[2] = "written") =>
       (p_paths[1] # p_paths[2])

\* C26: the aggregate and the reported outcome as claimed. A job that has
\* returned has an entry in processed_pdfs if and only if it returned its
\* pdf_info; a job that returned None has none.
C26_InAggregateIffSuccess ==
    \A i \in Inputs :
       /\ (result[i] = "None") => (i \notin Range(processed_pdfs))
       /\ (result[i] = "info") => (i \in Range(processed_pdfs))

\* ------------------------------------------------ the run under fair scheduling
\* The main thread goes on whenever it can (submit is not blocking, as_completed
\* yields every finished future and the executor's with-block ends when all
\* worker threads are through), every worker thread is scheduled again and
\* again, every call a job makes returns or raises, and a job that waits for
\* self.lock gets it once it is free for good (every job takes it only once).
MainStep ==
    \/ Submit
    \/ \E i \in Inputs : as_completed(i)
    \/ executor_shutdown

Fairness ==
    /\ WF_vars(MainStep)
    /\ \A i \in Inputs : WF_vars(process_single_pdf(i))

SpecFair == Init /\ [][Next]_vars /\ Fairness

\* The executor block of process_all_pdfs_parallel is being run.
Dispatching == mainPc \in {"submit", "as_completed"}

\* C27: termination and lock release. A job outside the critical section never
\* holds self.lock, also after update_index_page raised, and a held lock is
\* released in the end; every submitted job completes in the end and a run
\* that has begun to submit jobs reaches the publish decision; and the run is
\* at or past the publish decision only when no job is queued or running any
\* more, so a job whose call never returns keeps the run from reaching it.
C27_TerminationAndLockRelease ==
    /\ [](\A i \in Inputs : (lock = i) => InCritical(i))
    /\ \A i \in Inputs : (lock = i) ~> (lock = NoHolder)
    /\ \A i \in Inputs : (jobPc[i] = "queued") ~> (jobPc[i] = "done")
    /\ Dispatching ~> (mainPc = "summary")
    /\ []((\E i \in Inputs : jobPc[i] = "queued" \/ Running(i)) => ~RunOver)

\* The publish decision is reached after two jobs ran, one of which failed
\* inside the critical section when the index rewrite raised; the lock is free.
C27_Witness ==
    /\ mainPc = "summary"
    /\ NumFiles >= 2
    /\ lock = NoHolder
    /\ \E i \in Inputs : result[i] = "None" /\ i \in Range(processed_pdfs)
    /\ \E i \in Inputs : result[i] = "info"

\* The most one call may return: min_concepts = 1 for concepts, and for
\* questions the min_mcqs / min_subjective of the caller, 3 for a topic
\* without subtopics and 2 for a subtopic.
UpperBound == IF t_kind = "concept" THEN MinConcepts ELSE t_min

\* Item p of the model answer is in the returned batch of questions.
Kept(p) == \E m \in 1..Len(t_batch) : PositionOf(t_batch[m].id) = p

\* Item p of the model answer has the normalised text of no earlier item.
FirstOfItsText(p) ==
    \A q \in 1..(p - 1) :
       question_text(t_response.items[q]) # question_text(t_response.items[p])

\* C28: the upper bound of one topic or subtopic. A call of a generator returns
\* at most min_mcqs / min_subjective questions (3 or 2) and at most 1 concept,
\* which is all the caller adds to the bundle for that topic; and what is
\* dropped beyond duplicates is dropped from the end: the concepts returned
\* are the first ones of the answer, and a question of the answer that is the
\* first of its text and is not returned comes after a full batch.
C28_UpperBoundPerTopic ==
    (t_pc = "returned") =>
       /\ Len(t_batch) <= UpperBound
       /\ UpperBound \in {MinConcepts, MinSubtopic, MinMainTopic}
       /\ (t_kind = "concept" /\ t_response.shape = "list" /\ t_response.items # << >>) =>
             (t_batch = SubSeq(t_response.items, 1, Len(t_batch)))
       /\ (t_kind # "concept" /\ \A p \in 1..Len(t_response.items) :
                                    t_response.items[p].has_question) =>
             \A p \in 1..Len(t_response.items) :
                (FirstOfItsText(p) /\ ~Kept(p)) =>
                   /\ Len(t_batch) = t_min
                   /\ \A m \in 1..Len(t_batch) : PositionOf(t_batch[m].id) < p

\* A model answer with more different questions than the subtopic minimum: the
\* batch is full and the last question of the answer is not in it.
C28_Witness ==
    /\ t_pc = "returned"
    /\ t_kind # "concept"
    /\ Len(t_response.items) > t_min
    /\ \A p \in 1..Len(t_response.items) :
          t_response.items[p].has_question /\ FirstOfItsText(p)
    /\ Len(t_batch) = t_min
    /\ ~Kept(Len(t_response.items))

\* C29: the clean-up of deploy_to_github_pages as claimed. When the function
\* has got past the token and is left, by return or by exception, the working
\* directory is the one it was called in and deploy_temp does not exist.
C29_DeployRestoresDirectoryAndCleansUp ==
    (git_log # << >> /\ mainPc \in {"returned", "raised"}) =>
       (cwd = "project" /\ ~deploy_temp)

\* C30: the clean-up of GitHubPagesDeployer.deploy as claimed. When deploy has
\* returned, on whatever path, the directory deploy is gone and the working
\* directory is the project directory deploy was called in.
C30_DeployerCleansUp ==
    (d_pc = "returned") => (~d_deploy.exists /\ d_cwd = "project")

====
